---------------------------- MODULE Spec2Model ----------------------------
(***************************************************************************)
(* A model of generate_delegates.py: the extraction of method signatures   *)
(* from the rustdoc JSON index (stringify_type, parse_fn, parse_specs),    *)
(* the catalog set algebra (int_core, signed_core, unsigned_core), the     *)
(* TRAITS registry, the declaration renderer (print_decl) and the splicer  *)
(* that rewrites src/num.rs between its marker lines.                      *)
(*                                                                         *)
(* A Python str is a sequence of one-character strings, so that            *)
(* str.replace, the `in` test, str.startswith and START_RE work on         *)
(* characters as they do in the program.  A text file is the sequence of   *)
(* its lines, each without its line terminator; every line of a file is    *)
(* taken to be newline-terminated.  The backquote, which a TLA+ string     *)
(* cannot hold, is the element "backtick".  None is the empty sequence and *)
(* a present optional value v is <<v>>.                                    *)
(***************************************************************************)
EXTENDS Integers, Sequences, FiniteSets, TLC

VARIABLES
    \* parse_specs
    d,              \* the index entry visited last: [impl, item]
    fn,             \* what parse_fn returned for it
    res,            \* the catalog parse_specs is building
    n,              \* index entries visited so far
    ppc,            \* "run" | "aborted" | "done" | "idle"
    \* catalog set algebra
    i32_core, u32_core, int_core, signed_core, unsigned_core,
    apc,            \* "input" | "derived" | "idle"
    \* print_decl
    trait_name, catalogs, indent, impl, out,
    dpc,            \* "input" | "printed" | "idle"
    \* splicer
    src,            \* the lines of src/num.rs as the run opened it
    pos,            \* lines of src read so far
    copy_lines,
    dst,            \* the lines written to the temporary file
    target,         \* the lines of src/num.rs on disk
    original,       \* the lines of src/num.rs before the first run
    run,            \* 1 for the first run, 2 for the run on its result
    spc             \* "loop" | "aborted" | "moved" | "idle"

parseVars  == <<d, fn, res, n, ppc>>
algVars    == <<i32_core, u32_core, int_core, signed_core, unsigned_core, apc>>
declVars   == <<trait_name, catalogs, indent, impl, out, dpc>>
spliceVars == <<src, pos, copy_lines, dst, target, original, run, spc>>
vars       == <<parseVars, algVars, declVars, spliceVars>>

-----------------------------------------------------------------------------
(* Bounds of the model.                                                     *)

\* attributes an item carries at most
MaxAttrs == 2
\* index entries one parse_specs run visits at most
MaxItems == 2
\* methods in a catalog handed to the set algebra at most
MaxCatalog == 3
\* methods in the core and in the std catalog of a rendered trait at most
MaxCore == 2
MaxStd == 2
\* lines of src/num.rs at most
MaxLines == 4

-----------------------------------------------------------------------------
(* Python strings and lists.                                                *)

None == <<>>
Some(v) == <<v>>

\* s[i:].startswith(k)
StartsWithAt(s, k, i) ==
    /\ i + Len(k) - 1 <= Len(s)
    /\ \A j \in 1..Len(k) : s[i + j - 1] = k[j]

\* s.startswith(k)
StartsWith(s, k) == StartsWithAt(s, k, 1)

\* k in s
Contains(s, k) == \E i \in 1..(Len(s) + 1) : StartsWithAt(s, k, i)

\* s.replace(k, v) for a nonempty k: left to right, non-overlapping
RECURSIVE ReplaceFrom(_, _, _, _)
ReplaceFrom(s, k, v, i) ==
    IF i > Len(s) THEN <<>>
    ELSE IF StartsWithAt(s, k, i) THEN v \o ReplaceFrom(s, k, v, i + Len(k))
    ELSE <<s[i]>> \o ReplaceFrom(s, k, v, i + 1)

Replace(s, k, v) == ReplaceFrom(s, k, v, 1)

\* sep.join(parts)
RECURSIVE Join(_, _)
Join(sep, parts) ==
    IF parts = <<>> THEN <<>>
    ELSE IF Len(parts) = 1 THEN parts[1]
    ELSE parts[1] \o sep \o Join(sep, Tail(parts))

\* the sequences over S of length at most k
SeqsUpTo(S, k) == UNION {[1..m -> S] : m \in 0..k}

\* the sequences over S of length at most k without a repeated element
DistinctSeqsUpTo(S, k) ==
    {s \in SeqsUpTo(S, k) : \A i, j \in 1..Len(s) : i # j => s[i] # s[j]}

-----------------------------------------------------------------------------
(* The rustdoc type tree.  A node is the one-key dict {tag: inner}.         *)

Primitive(name)  == [tag |-> "primitive", name |-> name]
Generic(name)    == [tag |-> "generic", name |-> name]
Slice(t)         == [tag |-> "slice", inner |-> <<t>>]
Array(t, len)    == [tag |-> "array", inner |-> <<t>>, len |-> len]
BorrowedRef(t, is_mutable, lifetime) ==
    [tag |-> "borrowed_ref", inner |-> <<t>>, is_mutable |-> is_mutable,
     lifetime |-> lifetime]
TupleType(ts)    == [tag |-> "tuple", inner |-> ts]
\* args is None, or one generic-args dict {arg_typ: {args, constraints}}
ResolvedPath(path, args) == [tag |-> "resolved_path", path |-> path, args |-> args]
GenericArgs(arg_typ, args, has_constraints) ==
    [arg_typ |-> arg_typ, gargs |-> args, constraints |-> has_constraints]
\* one generic argument {typ: inner}
GenericArg(typ, t) == [gtyp |-> typ, inner |-> <<t>>]
\* a tag stringify_type has no case for
OtherType(tag)   == [tag |-> tag]

\* the outcome of a call that may fail an assertion
Ok(v)  == [ok |-> TRUE, v |-> v]
Abort  == [ok |-> FALSE, v |-> <<>>]

\* the values of the results rs, or Abort if one of them is
AllOk(rs) == \A i \in 1..Len(rs) : rs[i].ok
Values(rs) == [i \in 1..Len(rs) |-> rs[i].v]

RECURSIVE stringify_type(_)
RECURSIVE stringify_generic(_)
stringify_generic(g) ==
    IF g.gtyp = "type" THEN stringify_type(g.inner[1]) ELSE Abort

stringify_type(t) ==
    CASE t.tag = "primitive" -> Ok(t.name)
      [] t.tag = "generic" -> Ok(t.name)
      [] t.tag = "slice" ->
            LET r == stringify_type(t.inner[1])
            IN  IF r.ok THEN Ok(<<"[">> \o r.v \o <<"]">>) ELSE Abort
      [] t.tag = "array" ->
            LET r == stringify_type(t.inner[1])
            IN  IF r.ok THEN Ok(<<"[">> \o r.v \o <<";"," ">> \o t.len \o <<"]">>) ELSE Abort
      [] t.tag = "borrowed_ref" ->
            IF t.lifetime # None THEN Abort
            ELSE LET r == stringify_type(t.inner[1])
                     s == IF t.is_mutable THEN <<"&","m","u","t"," ">> ELSE <<"&">>
                 IN  IF r.ok THEN Ok(s \o r.v) ELSE Abort
      [] t.tag = "tuple" ->
            LET rs == [i \in 1..Len(t.inner) |-> stringify_type(t.inner[i])]
            IN  IF AllOk(rs) THEN Ok(<<"(">> \o Join(<<","," ">>, Values(rs)) \o <<")">>)
                ELSE Abort
      [] t.tag = "resolved_path" ->
            IF t.path = <<"c","r","a","t","e",":",":","c","m","p",":",":","O","r","d","e","r","i","n","g">> THEN Ok(<<"O","r","d","e","r","i","n","g">>)
            ELSE IF t.args = None THEN Ok(t.path)
            ELSE LET a == t.args[1]
                     rs == [i \in 1..Len(a.gargs) |-> stringify_generic(a.gargs[i])]
                 IN  IF a.constraints \/ a.arg_typ # "angle_bracketed" THEN Abort
                     ELSE IF AllOk(rs)
                          THEN Ok(t.path \o <<"<">> \o Join(<<","," ">>, Values(rs)) \o <<">">>)
                          ELSE Abort
      [] OTHER -> Abort

stringify_arg(name, typ_s) ==
    IF name = <<"s","e","l","f">>
    THEN CASE typ_s = <<"S","e","l","f">> -> Ok(<<"s","e","l","f">>)
           [] typ_s = <<"&","S","e","l","f">> -> Ok(<<"&","s","e","l","f">>)
           [] OTHER -> Abort
    ELSE Ok(name \o <<":"," ">> \o typ_s)

-----------------------------------------------------------------------------
(* parse_fn.  An item is the index entry of one associated item:            *)
(*   inner_typ    the tag of d["inner"]                                     *)
(*   params, where_predicates   whether spec["generics"] has any            *)
(*   deprecated   whether d["deprecation"] is not None                      *)
(*   attrs        d["attrs"], each {typ: inner}: for must_use inner is      *)
(*                {key: reason}, for other it is the attribute's text       *)
(*   name, is_unsafe, inputs (pairs <<name, type>>), output (None or type)  *)

MustUse(key, reason) == [typ |-> "must_use", key |-> key, reason |-> reason, text |-> <<>>]
Other(text)          == [typ |-> "other", key |-> <<>>, reason |-> None, text |-> text]
OtherAttr(typ)       == [typ |-> typ, key |-> <<>>, reason |-> None, text |-> <<>>]

FunctionSpec(must_use_reason, unsafe, name, definition, call) ==
    [must_use_reason |-> must_use_reason, unsafe |-> unsafe, name |-> name,
     definition |-> definition, call |-> call]

NoSpec == FunctionSpec(None, FALSE, <<>>, <<>>, <<>>)
\* what parse_fn does: returns None, returns a FunctionSpec, fails an assertion
ReturnNone     == [kind |-> "none", spec |-> NoSpec]
Return(spec)   == [kind |-> "spec", spec |-> spec]
Raise          == [kind |-> "abort", spec |-> NoSpec]

\* a text of "#[attr = Stability" that names an unstable or unreleased level
IsUnstable_NoCurrent(inner) == Contains(inner, <<"U","n","s","t","a","b","l","e">>)
IsUnstable(inner) == Contains(inner, <<"U","n","s","t","a","b","l","e">>) \/ Contains(inner, <<"s","i","n","c","e",":"," ","C","u","r","r","e","n","t">>)

IsStability(inner) == StartsWith(inner, <<"#","[","a","t","t","r"," ","="," ","S","t","a","b","i","l","i","t","y">>)

\* the loop over d["attrs"] from attribute i on, must_use_reason so far
RECURSIVE ScanAttrs(_, _, _)
ScanAttrs(attrs, i, must_use_reason) ==
    IF i > Len(attrs) THEN [kind |-> "ok", must_use_reason |-> must_use_reason]
    ELSE LET a == attrs[i] IN
         CASE a.typ = "must_use" ->
                IF a.key # <<"r","e","a","s","o","n">> \/ must_use_reason # None
                THEN [kind |-> "abort", must_use_reason |-> None]
                ELSE ScanAttrs(attrs, i + 1, a.reason)
           [] a.typ = "other" ->
                IF IsStability(a.text) /\ IsUnstable(a.text)
                THEN [kind |-> "none", must_use_reason |-> None]
                ELSE ScanAttrs(attrs, i + 1, must_use_reason)
           [] OTHER -> [kind |-> "abort", must_use_reason |-> None]

HasGenerics(item) == item.params \/ item.where_predicates

\* lines 108-138: the FunctionSpec of an item that is not skipped
BuildSpec(item, must_use_reason) ==
    LET typs   == [i \in 1..Len(item.inputs) |-> stringify_type(item.inputs[i][2])]
        args   == [i \in 1..Len(item.inputs) |->
                     IF typs[i].ok THEN stringify_arg(item.inputs[i][1], typs[i].v)
                     ELSE Abort]
        names  == [i \in 1..Len(item.inputs) |-> item.inputs[i][1]]
        output == IF item.output = None THEN Abort
                  ELSE stringify_type(item.output[1])
    IN  IF ~AllOk(args) \/ ~output.ok THEN Raise
        ELSE Return(FunctionSpec(
                must_use_reason,
                item.is_unsafe,
                item.name,
                (IF item.is_unsafe THEN <<"u","n","s","a","f","e"," ">> ELSE <<>>)
                    \o <<"f","n"," ">> \o item.name \o <<"(">> \o Join(<<","," ">>, Values(args)) \o <<")">>
                    \o <<" ","-",">"," ">> \o output.v,
                item.name \o <<"(">> \o Join(<<","," ">>, names) \o <<")">>))

parse_fn(item) ==
    IF item.inner_typ # "function" THEN ReturnNone
    ELSE IF HasGenerics(item) THEN ReturnNone
    ELSE IF item.deprecated THEN ReturnNone
    ELSE LET scan == ScanAttrs(item.attrs, 1, None)
         IN  CASE scan.kind = "none" -> ReturnNone
               [] scan.kind = "abort" -> Raise
               [] OTHER -> BuildSpec(item, scan.must_use_reason)

-----------------------------------------------------------------------------
(* The inputs of parse_specs: impl blocks and their items.                  *)

T_Self  == Generic(<<"S","e","l","f">>)
T_i32   == Primitive(<<"i","3","2">>)
T_u32   == Primitive(<<"u","3","2">>)
T_f32   == Primitive(<<"f","3","2">>)

Item(inner_typ, params, where_predicates, deprecated, attrs, sig) ==
    [inner_typ |-> inner_typ, params |-> params,
     where_predicates |-> where_predicates, deprecated |-> deprecated,
     attrs |-> attrs, name |-> sig.name, is_unsafe |-> sig.is_unsafe,
     inputs |-> sig.inputs, output |-> sig.output]

Sig(name, is_unsafe, inputs, output) ==
    [name |-> name, is_unsafe |-> is_unsafe, inputs |-> inputs, output |-> output]

\* fn abs(self) -> i32
SigAbs == Sig(<<"a","b","s">>, FALSE, << <<<<"s","e","l","f">>, T_Self>> >>, Some(T_i32))
\* unsafe fn unchecked_add(self, rhs: i32) -> i32
SigUncheckedAdd ==
    Sig(<<"u","n","c","h","e","c","k","e","d","_","a","d","d">>, TRUE, << <<<<"s","e","l","f">>, T_Self>>, <<<<"r","h","s">>, T_i32>> >>, Some(T_i32))
\* fn as_ref<'a>(&'a self) -> &'a i32: a reference with a lifetime, which
\* stringify_type rejects
SigLifetime ==
    Sig(<<"a","s","_","r","e","f">>, FALSE, << <<<<"s","e","l","f">>, BorrowedRef(T_Self, FALSE, Some(<<"'","a">>))>> >>,
        Some(BorrowedRef(T_i32, FALSE, Some(<<"'","a">>))))
\* fn set(self): no return type, sig["output"] is None
SigNoOutput == Sig(<<"s","e","t">>, FALSE, << <<<<"s","e","l","f">>, T_Self>> >>, None)

ParseSigs == {SigAbs, SigUncheckedAdd, SigLifetime, SigNoOutput}

AttrMustUse      == MustUse(<<"r","e","a","s","o","n">>, Some(<<"u","s","e"," ","i","t">>))
AttrMustUseBare  == MustUse(<<"r","e","a","s","o","n">>, None)
AttrMustUseNote  == MustUse(<<"n","o","t","e">>, Some(<<"u","s","e"," ","i","t">>))
AttrUnstable     == Other(<<"#","[","a","t","t","r"," ","="," ","S","t","a","b","i","l","i","t","y","{","l","e","v","e","l",":"," ","U","n","s","t","a","b","l","e","}","]">>)
AttrCurrent      == Other(<<"#","[","a","t","t","r"," ","="," ","S","t","a","b","i","l","i","t","y","{","l","e","v","e","l",":"," ","S","t","a","b","l","e","{","s","i","n","c","e",":"," ","C","u","r","r","e","n","t","}","}","]">>)
AttrStable       == Other(<<"#","[","a","t","t","r"," ","="," ","S","t","a","b","i","l","i","t","y","{","l","e","v","e","l",":"," ","S","t","a","b","l","e","{","s","i","n","c","e",":"," ","1",".","0","}","}","]">>)
AttrDocUnstable  == Other(<<"#","[","d","o","c"," ","="," ","\"","U","n","s","t","a","b","l","e","\"","]">>)
AttrUnknown      == OtherAttr("inline")

ParseAttrs == {AttrMustUse, AttrMustUseBare, AttrMustUseNote, AttrUnstable,
               AttrCurrent, AttrStable, AttrDocUnstable, AttrUnknown}

\* the items of an inherent impl block of the type
ParseItems ==
    {Item(it, g[1], g[2], dep, attrs, sig) :
        it \in {"function", "constant"},
        g \in {<<FALSE, FALSE>>, <<TRUE, FALSE>>, <<FALSE, TRUE>>},
        dep \in BOOLEAN,
        attrs \in SeqsUpTo(ParseAttrs, MaxAttrs),
        sig \in ParseSigs}

\* an impl block: the primitive it is for, whether it implements a trait
Impl(for, has_trait) == [for |-> for, has_trait |-> has_trait]
InherentImpl == Impl(<<"i","3","2">>, FALSE)
\* items of the impl blocks parse_specs passes over
PlainItems == {Item("function", FALSE, FALSE, FALSE, <<>>, SigAbs)}

Entries ==
    {[impl |-> InherentImpl, item |-> it] : it \in ParseItems}
    \cup {[impl |-> Impl(<<"u","3","2">>, FALSE), item |-> it] : it \in PlainItems}
    \cup {[impl |-> Impl(<<"i","3","2">>, TRUE), item |-> it] : it \in PlainItems}

NoEntry == [impl |-> Impl(<<>>, FALSE),
            item |-> Item("none", FALSE, FALSE, FALSE, <<>>, Sig(<<>>, FALSE, <<>>, None))]

-----------------------------------------------------------------------------
(* parse_specs("core", "i32"), one step per item of an impl block.          *)

ParseTyp == <<"i","3","2">>

AlgIdle ==
    /\ i32_core = <<>> /\ u32_core = <<>> /\ int_core = <<>>
    /\ signed_core = <<>> /\ unsigned_core = <<>> /\ apc = "idle"
DeclIdle ==
    /\ trait_name = "" /\ catalogs = <<>> /\ indent = <<>> /\ impl = FALSE
    /\ out = <<>> /\ dpc = "idle"
SpliceIdle ==
    /\ src = <<>> /\ pos = 0 /\ copy_lines = TRUE /\ dst = <<>> /\ target = <<>>
    /\ original = <<>> /\ run = 0 /\ spc = "idle"
ParseIdle ==
    /\ d = NoEntry /\ fn = ReturnNone /\ res = <<>> /\ n = 0 /\ ppc = "idle"

InitParse ==
    /\ d = NoEntry /\ fn = ReturnNone /\ res = <<>> /\ n = 0 /\ ppc = "run"
    /\ AlgIdle /\ DeclIdle /\ SpliceIdle

\* lines 155-156: an impl block for another type is passed over
SkipOtherType ==
    /\ ppc = "run" /\ n < MaxItems /\ d = NoEntry
    /\ \E e \in Entries :
        /\ e.impl.for # ParseTyp
        /\ d' = e /\ fn' = ReturnNone /\ n' = n + 1
        /\ UNCHANGED <<res, ppc>>
    /\ UNCHANGED <<algVars, declVars, spliceVars>>

\* lines 158-159: an impl block of a trait is passed over
SkipTraitImpl ==
    /\ ppc = "run" /\ n < MaxItems /\ d = NoEntry
    /\ \E e \in Entries :
        /\ e.impl.for = ParseTyp /\ e.impl.has_trait
        /\ d' = e /\ fn' = ReturnNone /\ n' = n + 1
        /\ UNCHANGED <<res, ppc>>
    /\ UNCHANGED <<algVars, declVars, spliceVars>>

\* lines 161-164: one item of an inherent impl block
ParseItem ==
    /\ ppc = "run" /\ n < MaxItems /\ d = NoEntry
    /\ \E e \in Entries :
        /\ e.impl.for = ParseTyp /\ ~e.impl.has_trait
        /\ LET r == parse_fn(e.item) IN
            /\ d' = e /\ fn' = r /\ n' = n + 1
            /\ res' = IF r.kind = "spec" THEN Append(res, r.spec) ELSE res
            /\ ppc' = IF r.kind = "abort" THEN "aborted" ELSE "run"
    /\ UNCHANGED <<algVars, declVars, spliceVars>>

\* lines 152 and 161: the loops go on to the next entry
NextEntry ==
    /\ ppc = "run" /\ d # NoEntry
    /\ d' = NoEntry /\ fn' = ReturnNone
    /\ UNCHANGED <<res, n, ppc>>
    /\ UNCHANGED <<algVars, declVars, spliceVars>>

\* line 166
ReturnRes ==
    /\ ppc = "run" /\ d = NoEntry
    /\ ppc' = "done"
    /\ UNCHANGED <<d, fn, res, n>>
    /\ UNCHANGED <<algVars, declVars, spliceVars>>

NextParse == SkipOtherType \/ SkipTraitImpl \/ ParseItem \/ NextEntry \/ ReturnRes

SpecParse == InitParse /\ [][NextParse]_vars

-----------------------------------------------------------------------------
(* C8: the skip decisions of parse_fn.                                      *)

\* the entry visited was handed to parse_fn
Parsed(e) == e # NoEntry /\ e.impl = InherentImpl /\ e.item.inner_typ = "function"

\* attribute i is a stability attribute naming an unstable or unreleased level
UnstableAt(attrs, i) ==
    /\ attrs[i].typ = "other"
    /\ StartsWith(attrs[i].text, <<"#","[","a","t","t","r"," ","="," ","S","t","a","b","i","l","i","t","y">>)
    /\ \/ Contains(attrs[i].text, <<"U","n","s","t","a","b","l","e">>)
       \/ Contains(attrs[i].text, <<"s","i","n","c","e",":"," ","C","u","r","r","e","n","t">>)

DeclaresGenerics(item) == item.params \/ item.where_predicates
CarriesUnstable(item) == \E i \in 1..Len(item.attrs) : UnstableAt(item.attrs, i)

\* attribute j is one the scan of the attributes fails on, when it reaches it:
\* an unknown tag, a must_use whose key is not "reason", a must_use after one
\* that gave a reason
FatalAt(attrs, j) ==
    \/ attrs[j].typ \notin {"must_use", "other"}
    \/ /\ attrs[j].typ = "must_use"
       /\ \/ attrs[j].key # <<"r","e","a","s","o","n">>
          \/ \E k \in 1..(j - 1) : attrs[k].typ = "must_use" /\ attrs[k].reason # None

\* the scan reaches an unstable stability attribute before a fatal one
UnstableFirst(item) ==
    \E i \in 1..Len(item.attrs) :
        /\ UnstableAt(item.attrs, i)
        /\ \A j \in 1..(i - 1) : ~FatalAt(item.attrs, j)

\* the scan reaches a fatal attribute before an unstable stability attribute
FatalFirst(item) ==
    \E j \in 1..Len(item.attrs) :
        /\ FatalAt(item.attrs, j)
        /\ \A i \in 1..(j - 1) : ~FatalAt(item.attrs, i) /\ ~UnstableAt(item.attrs, i)

\* C8 as stated: a function item that declares a generic parameter or a
\* where-clause, is deprecated, or carries an unstable or current stability
\* attribute yields no FunctionSpec and does not abort the run, whatever its
\* other attributes, their order and its types.
C8_SkipRegardless ==
    (/\ Parsed(d)
     /\ \/ DeclaresGenerics(d.item)
        \/ d.item.deprecated
        \/ CarriesUnstable(d.item))
    => fn.kind = "none" /\ ppc = "run"

\* C8 amended: such an item yields no FunctionSpec, leaves the catalog as it
\* was and does not abort when it is generic or deprecated, or when the scan
\* of its attributes reaches the unstable or current stability attribute
\* before any fatal attribute; a non-generic, non-deprecated item whose fatal
\* attribute comes first aborts the run, unstable or not.
C8_SkipUnlessFatalFirst ==
    [][ (d = NoEntry /\ Parsed(d')) =>
          /\ (\/ DeclaresGenerics(d'.item)
              \/ d'.item.deprecated
              \/ UnstableFirst(d'.item))
             => fn'.kind = "none" /\ ppc' = "run" /\ res' = res
          /\ (/\ ~DeclaresGenerics(d'.item)
              /\ ~d'.item.deprecated
              /\ FatalFirst(d'.item))
             => fn'.kind = "abort" /\ ppc' = "aborted" /\ res' = res ]_vars

\* an unstable item with a must_use attribute before its stability attribute
\* and a type stringify_type rejects was skipped, a FunctionSpec already in
\* the catalog
C8_Witness ==
    /\ Parsed(d)
    /\ ~DeclaresGenerics(d.item) /\ ~d.item.deprecated
    /\ d.item.attrs = <<AttrMustUse, AttrCurrent>>
    /\ d.item.output = SigLifetime.output
    /\ fn.kind = "none" /\ ppc = "run" /\ Len(res) = 1

-----------------------------------------------------------------------------
(* The catalogs parse_specs returns, as far as the model draws them: the    *)
(* FunctionSpec parse_fn builds for a method of the named primitive.        *)

T_Option(t) ==
    ResolvedPath(<<"O","p","t","i","o","n">>, Some(GenericArgs("angle_bracketed", <<GenericArg("type", t)>>, FALSE)))
T_Bytes == Array(Primitive(<<"u","8">>), <<"4">>)

Method(name, is_unsafe, attrs, inputs, output) ==
    parse_fn(Item("function", FALSE, FALSE, FALSE, attrs,
                  Sig(name, is_unsafe, inputs, Some(output)))).spec

SelfArg == <<<<"s","e","l","f">>, T_Self>>

\* f32 in core
F_abs         == Method(<<"a","b","s">>, FALSE, <<AttrMustUse>>, <<SelfArg>>, T_f32)
F_to_bits     == Method(<<"t","o","_","b","i","t","s">>, FALSE,
                        <<MustUse(<<"r","e","a","s","o","n">>, Some(<<"r","e","t","u","r","n","s"," ","t","h","e"," ","b","i","t","s"," ","o","f"," ","t","h","e"," ","f","3","2">>))>>,
                        <<SelfArg>>, T_u32)
F_to_be_bytes == Method(<<"t","o","_","b","e","_","b","y","t","e","s">>, FALSE, <<>>, <<SelfArg>>, T_Bytes)
F_mul_add     == Method(<<"m","u","l","_","a","d","d">>, FALSE, <<AttrMustUse>>,
                        <<SelfArg, <<<<"a">>, T_f32>>, <<<<"b">>, T_f32>> >>, T_f32)
\* a signature in which the name of the type is followed by its own tail
F_mix         == Method(<<"m","i","x">>, FALSE, <<>>,
                        <<SelfArg, <<<<"o","t","h","e","r">>, ResolvedPath(<<"f","3","2","3","2">>, None)>> >>, T_f32)
\* f32 in std
S_sqrt        == Method(<<"s","q","r","t">>, FALSE, <<AttrMustUse>>, <<SelfArg>>, T_f32)
S_mul_add     == Method(<<"m","u","l","_","a","d","d">>, FALSE, <<>>,
                        <<SelfArg, <<<<"x">>, T_f32>>, <<<<"y">>, T_f32>> >>, T_f32)
S_abs         == Method(<<"a","b","s">>, FALSE, <<>>, <<SelfArg>>, T_f32)
\* i32 in core
I_abs           == Method(<<"a","b","s">>, FALSE, <<AttrMustUse>>, <<SelfArg>>, T_i32)
I_abs_diff      == Method(<<"a","b","s","_","d","i","f","f">>, FALSE, <<AttrMustUse>>,
                          <<SelfArg, <<<<"o","t","h","e","r">>, T_i32>> >>, T_u32)
I_unchecked_add == Method(<<"u","n","c","h","e","c","k","e","d","_","a","d","d">>, TRUE, <<AttrMustUse>>,
                          <<SelfArg, <<<<"r","h","s">>, T_i32>> >>, T_i32)
I_count_ones    == Method(<<"c","o","u","n","t","_","o","n","e","s">>, FALSE, <<>>, <<SelfArg>>, T_u32)
I_unsigned_abs  == Method(<<"u","n","s","i","g","n","e","d","_","a","b","s">>, FALSE, <<AttrMustUse>>, <<SelfArg>>, T_u32)
I_cast_unsigned == Method(<<"c","a","s","t","_","u","n","s","i","g","n","e","d">>, FALSE, <<>>, <<SelfArg>>, T_u32)
I_checked_add_unsigned ==
    Method(<<"c","h","e","c","k","e","d","_","a","d","d","_","u","n","s","i","g","n","e","d">>, FALSE, <<AttrMustUse>>,
           <<SelfArg, <<<<"r","h","s">>, T_u32>> >>, T_Option(T_i32))
\* u32 in core
U_abs_diff      == Method(<<"a","b","s","_","d","i","f","f">>, FALSE, <<AttrMustUse>>,
                          <<SelfArg, <<<<"o","t","h","e","r">>, T_u32>> >>, T_u32)
U_count_ones    == Method(<<"c","o","u","n","t","_","o","n","e","s">>, FALSE, <<>>, <<SelfArg>>, T_u32)
U_cast_signed   == Method(<<"c","a","s","t","_","s","i","g","n","e","d">>, FALSE, <<>>, <<SelfArg>>, T_i32)
U_checked_add_signed ==
    Method(<<"c","h","e","c","k","e","d","_","a","d","d","_","s","i","g","n","e","d">>, FALSE, <<AttrMustUse>>,
           <<SelfArg, <<<<"r","h","s">>, T_i32>> >>, T_Option(T_u32))
U_checked_signed_diff ==
    Method(<<"c","h","e","c","k","e","d","_","s","i","g","n","e","d","_","d","i","f","f">>, FALSE, <<>>,
           <<SelfArg, <<<<"r","h","s">>, T_u32>> >>, T_Option(T_i32))

\* {s.name for s in catalog}
NamesOf(catalog) == {catalog[i].name : i \in 1..Len(catalog)}

-----------------------------------------------------------------------------
(* Lines 178-186: the catalog set algebra.                                  *)

\* [s for s in i32_core if s.name in u32_fns]
IntCore(i32c, u32c) ==
    LET u32_fns == NamesOf(u32c)
        Keep(s) == s.name \in u32_fns
    IN  SelectSeq(i32c, Keep)

\* [s for s in i32_core if s.name not in u32_fns]
SignedCore(i32c, u32c) ==
    LET u32_fns == NamesOf(u32c)
        Keep(s) == s.name \notin u32_fns
    IN  SelectSeq(i32c, Keep)

\* the filter of line 186 reading u32_fns where the program reads i32_fns
UnsignedCore_OwnNames(i32c, u32c) ==
    LET u32_fns == NamesOf(u32c)
        Keep(s) == s.name \notin u32_fns
    IN  SelectSeq(u32c, Keep)

\* [s for s in u32_core if s.name not in i32_fns]
UnsignedCore(i32c, u32c) ==
    LET i32_fns == NamesOf(i32c)
        Keep(s) == s.name \notin i32_fns
    IN  SelectSeq(u32c, Keep)

I32Methods == {I_abs_diff, I_count_ones, I_unsigned_abs}
U32Methods == {U_abs_diff, U_count_ones, U_cast_signed}

InitAlgebra ==
    /\ i32_core \in SeqsUpTo(I32Methods, MaxCatalog)
    /\ u32_core \in SeqsUpTo(U32Methods, MaxCatalog)
    /\ int_core = <<>> /\ signed_core = <<>> /\ unsigned_core = <<>>
    /\ apc = "input"
    /\ ParseIdle /\ DeclIdle /\ SpliceIdle

Derive ==
    /\ apc = "input"
    /\ int_core' = IntCore(i32_core, u32_core)
    /\ signed_core' = SignedCore(i32_core, u32_core)
    /\ unsigned_core' = UnsignedCore(i32_core, u32_core)
    /\ apc' = "derived"
    /\ UNCHANGED <<i32_core, u32_core>>
    /\ UNCHANGED <<parseVars, declVars, spliceVars>>

NextAlgebra == Derive

SpecAlgebra == InitAlgebra /\ [][NextAlgebra]_vars

-----------------------------------------------------------------------------
(* C5: the derived catalogs partition the method names.                     *)

AllNames == NamesOf(i32_core) \cup NamesOf(u32_core) \cup NamesOf(int_core)
            \cup NamesOf(signed_core) \cup NamesOf(unsigned_core)

\* C5: a method name is in the shared catalog iff it is in both input
\* catalogs, in the signed-exclusive catalog iff it is only in the signed
\* one, in the unsigned-exclusive catalog iff it is only in the unsigned one;
\* the three name sets are pairwise disjoint and their union is the union of
\* the names of the two input catalogs.
C5_Partition ==
    apc = "derived" =>
        /\ \A nm \in AllNames :
            /\ nm \in NamesOf(int_core)
                <=> (nm \in NamesOf(i32_core) /\ nm \in NamesOf(u32_core))
            /\ nm \in NamesOf(signed_core)
                <=> (nm \in NamesOf(i32_core) /\ nm \notin NamesOf(u32_core))
            /\ nm \in NamesOf(unsigned_core)
                <=> (nm \notin NamesOf(i32_core) /\ nm \in NamesOf(u32_core))
        /\ NamesOf(int_core) \cap NamesOf(signed_core) = {}
        /\ NamesOf(int_core) \cap NamesOf(unsigned_core) = {}
        /\ NamesOf(signed_core) \cap NamesOf(unsigned_core) = {}
        /\ NamesOf(int_core) \cup NamesOf(signed_core) \cup NamesOf(unsigned_core)
            = NamesOf(i32_core) \cup NamesOf(u32_core)

\* the three derived catalogs are all nonempty, and a shared name has
\* different signatures in the two inputs
C5_Witness ==
    /\ apc = "derived"
    /\ int_core # <<>> /\ signed_core # <<>> /\ unsigned_core # <<>>
    /\ \E i \in 1..Len(i32_core), j \in 1..Len(u32_core) :
        /\ i32_core[i].name = u32_core[j].name
        /\ i32_core[i].definition # u32_core[j].definition

-----------------------------------------------------------------------------
(* Lines 169-255: the registry.  The catalogs of a trait are what           *)
(* parse_specs and the set algebra produced; the rest is written in the     *)
(* program.  replacements is the dict in its insertion order.               *)

Trait(example_implementor, core_fns, std_fns, ignores, replacements) ==
    [example_implementor |-> example_implementor, core_fns |-> core_fns,
     std_fns |-> std_fns, ignores |-> ignores, replacements |-> replacements]

\* "Implemented on Number trait"
NumberFns ==
    {<<"t","o","_","b","e","_","b","y","t","e","s">>, <<"t","o","_","l","e","_","b","y","t","e","s">>, <<"t","o","_","n","e","_","b","y","t","e","s">>, <<"f","r","o","m","_","b","e","_","b","y","t","e","s">>, <<"f","r","o","m","_","l","e","_","b","y","t","e","s">>,
     <<"f","r","o","m","_","n","e","_","b","y","t","e","s">>, <<"a","b","s">>, <<"s","i","g","n","u","m">>, <<"d","i","v","_","e","u","c","l","i","d">>, <<"r","e","m","_","e","u","c","l","i","d">>}

TraitNames == {"FLOAT", "INTEGER", "SIGNED", "UNSIGNED"}

\* TRAITS[name], the catalogs cat = [core_fns, std_fns] given
TRAITS(name, cat) ==
    CASE name = "FLOAT" ->
            Trait(<<"f","3","2">>, cat.core_fns, cat.std_fns, NumberFns,
                  << <<<<"u","3","2">>, <<"S","e","l","f",":",":","B","i","t","s">>>>,
                     <<<<"[","u","8",";"," ","4","]">>, <<"S","e","l","f",":",":","B","y","t","e","s">>>> >>)
      [] name = "INTEGER" ->
            Trait(<<"i","3","2">>, cat.core_fns, <<>>, NumberFns,
                  << <<<<"a","b","s","_","d","i","f","f","(","s","e","l","f",","," ","o","t","h","e","r",":"," ","S","e","l","f",")"," ","-",">"," ","u","3","2">>,
                       <<"a","b","s","_","d","i","f","f","(","s","e","l","f",","," ","o","t","h","e","r",":"," ","S","e","l","f",")"," ","-",">"," ","S","e","l","f",":",":","U","n","s","i","g","n","e","d">>>> >>)
      [] name = "SIGNED" ->
            Trait(<<"i","3","2">>, cat.core_fns, <<>>, {},
                  << <<<<"_","u","n","s","i","g","n","e","d","(","s","e","l","f",")"," ","-",">"," ","u","3","2">>, <<"_","u","n","s","i","g","n","e","d","(","s","e","l","f",")"," ","-",">"," ","S","e","l","f",":",":","U","n","s","i","g","n","e","d">>>>,
                     <<<<"_","u","n","s","i","g","n","e","d","(","s","e","l","f",","," ","r","h","s",":"," ","u","3","2",")">>, <<"_","u","n","s","i","g","n","e","d","(","s","e","l","f",","," ","r","h","s",":"," ","S","e","l","f",":",":","U","n","s","i","g","n","e","d",")">>>>,
                     <<<<"u","n","s","i","g","n","e","d","_","a","b","s","(","s","e","l","f",")"," ","-",">"," ","u","3","2">>, <<"u","n","s","i","g","n","e","d","_","a","b","s","(","s","e","l","f",")"," ","-",">"," ","S","e","l","f",":",":","U","n","s","i","g","n","e","d">>>> >>)
      [] name = "UNSIGNED" ->
            Trait(<<"u","3","2">>, cat.core_fns, <<>>, {},
                  << <<<<"_","s","i","g","n","e","d","(","s","e","l","f",","," ","r","h","s",":"," ","i","3","2",")">>, <<"_","s","i","g","n","e","d","(","s","e","l","f",","," ","r","h","s",":"," ","S","e","l","f",":",":","S","i","g","n","e","d",")">>>>,
                     <<<<"_","s","i","g","n","e","d","(","s","e","l","f",")"," ","-",">"," ","i","3","2">>, <<"_","s","i","g","n","e","d","(","s","e","l","f",")"," ","-",">"," ","S","e","l","f",":",":","S","i","g","n","e","d">>>>,
                     <<<<"_","s","i","g","n","e","d","_","d","i","f","f","(","s","e","l","f",","," ","r","h","s",":"," ","S","e","l","f",")"," ","-",">"," ","O","p","t","i","o","n","<","i","3","2",">">>,
                       <<"_","s","i","g","n","e","d","_","d","i","f","f","(","s","e","l","f",","," ","r","h","s",":"," ","S","e","l","f",")"," ","-",">"," ","O","p","t","i","o","n","<","S","e","l","f",":",":","S","i","g","n","e","d",">">>>> >>)

-----------------------------------------------------------------------------
(* Lines 258-305: print_decl.  What it writes is the sequence of its print  *)
(* calls, each the lines of the text printed.                               *)

\* lines 276-278: the replacements from the i-th on
RECURSIVE ApplyReplacements(_, _, _)
ApplyReplacements(text, replacements, i) ==
    IF i > Len(replacements) THEN text
    ELSE ApplyReplacements(Replace(text, replacements[i][1], replacements[i][2]),
                           replacements, i + 1)

\* the substitution without the replacement of the example implementor
Substitute_TableOnly(text, trait) ==
    ApplyReplacements(text, trait.replacements, 1)

\* lines 274-278, for definition and for call
Substitute(text, trait) ==
    ApplyReplacements(Replace(text, trait.example_implementor, <<"S","e","l","f">>),
                      trait.replacements, 1)

\* line 263 without its filter
StdFns_NoFilter(trait) == trait.std_fns

\* lines 262-263
StdFns(trait) ==
    LET core_fns == NamesOf(trait.core_fns)
        Keep(s) == s.name \notin core_fns
    IN  SelectSeq(trait.std_fns, Keep)

\* line 271 never skipping
Ignored_Never(f, trait) == FALSE

\* line 271
Ignored(f, trait) == f.name \in trait.ignores

\* line 267, without its newline
Cfg(ind) == ind \o <<"#","[","c","f","g","(","f","e","a","t","u","r","e"," ","="," ","\"","s","t","d","\"",")","]">>

\* lines 274-305: the print call for one function
PrintFn(ind, trait, is_impl, is_std, f) ==
    LET definition == Substitute(f.definition, trait)
        call == Substitute(f.call, trait)
        cfg == IF is_std THEN <<Cfg(ind)>> ELSE <<>>
        ref == <<"[","backtick">> \o trait.example_implementor \o <<":",":">> \o f.name \o <<"backtick","]">>
        see == ind \o <<"/","/","/"," ","S","e","e"," ">> \o ref \o <<".">>
        docs == IF f.unsafe
                THEN <<see, ind \o <<"/","/","/">>, ind \o <<"/","/","/"," ","#"," ","S","a","f","e","t","y">>, ind \o <<"/","/","/">>, see>>
                ELSE <<see>>
        must_use == IF f.must_use_reason # None
                    THEN <<ind \o <<"#","[","m","u","s","t","_","u","s","e"," ","="," ","\"">> \o f.must_use_reason[1] \o <<"\"","]">>>>
                    ELSE <<>>
    IN  IF is_impl
        THEN cfg \o <<ind \o definition \o <<" ","{">>,
                      ind \o <<" "," "," "," ","S","e","l","f",":",":">> \o call,
                      ind \o <<"}">>,
                      <<>>>>
        ELSE docs \o cfg \o must_use \o <<ind \o definition \o <<";">>, <<>>>>

\* lines 270-305: the print calls for the functions fns from the i-th on
RECURSIVE PrintFns(_, _, _, _, _, _)
PrintFns(ind, trait, is_impl, is_std, fns, i) ==
    IF i > Len(fns) THEN <<>>
    ELSE (IF Ignored(fns[i], trait) THEN <<>>
          ELSE <<PrintFn(ind, trait, is_impl, is_std, fns[i])>>)
         \o PrintFns(ind, trait, is_impl, is_std, fns, i + 1)

print_decl(ind, trait, is_impl) ==
    << <<ind \o <<"/","/"," ","G","e","n","e","r","a","t","e","d"," ","b","y"," ","g","e","n","e","r","a","t","e","_","d","e","l","e","g","a","t","e","s",".","p","y">>>>, << <<>> >> >>
    \o PrintFns(ind, trait, is_impl, FALSE, trait.core_fns, 1)
    \o PrintFns(ind, trait, is_impl, TRUE, StdFns(trait), 1)

\* the lines of the text the print calls wrote
RECURSIVE Flatten(_)
Flatten(chunks) ==
    IF chunks = <<>> THEN <<>> ELSE chunks[1] \o Flatten(Tail(chunks))

-----------------------------------------------------------------------------
(* print_decl on one trait of the registry.                                 *)

NoCatalogs == [core_fns |-> <<>>, std_fns |-> <<>>]

CorePool(name) ==
    CASE name = "FLOAT" -> {F_abs, F_to_bits, F_to_be_bytes, F_mul_add, F_mix}
      [] name = "INTEGER" -> {I_abs, I_abs_diff, I_unchecked_add, I_count_ones}
      [] name = "SIGNED" -> {I_unsigned_abs, I_cast_unsigned, I_checked_add_unsigned}
      [] name = "UNSIGNED" -> {U_cast_signed, U_checked_add_signed, U_checked_signed_diff}

\* only FLOAT is given a std catalog (lines 193, 215, 236, 247)
StdPool(name) == IF name = "FLOAT" THEN {S_sqrt, S_mul_add, S_abs} ELSE {}

Indents == {<<>>, <<" "," "," "," ">>}

InitDecl ==
    /\ trait_name \in TraitNames
    /\ \E core \in DistinctSeqsUpTo(CorePool(trait_name), MaxCore),
          std \in DistinctSeqsUpTo(StdPool(trait_name), MaxStd) :
        catalogs = [core_fns |-> core, std_fns |-> std]
    /\ indent \in Indents
    /\ impl \in BOOLEAN
    /\ out = <<>>
    /\ dpc = "input"
    /\ ParseIdle /\ AlgIdle /\ SpliceIdle

PrintDecl ==
    /\ dpc = "input"
    /\ out' = print_decl(indent, TRAITS(trait_name, catalogs), impl)
    /\ dpc' = "printed"
    /\ UNCHANGED <<trait_name, catalogs, indent, impl>>
    /\ UNCHANGED <<parseVars, algVars, spliceVars>>

NextDecl == PrintDecl

SpecDecl == InitDecl /\ [][NextDecl]_vars

-----------------------------------------------------------------------------
(* C6, C7, C9: what print_decl wrote, read off its text.                    *)

\* the trait rendered and the methods of its two catalogs
Rendered == TRAITS(trait_name, catalogs)
CoreNames == NamesOf(catalogs.core_fns)
StdNames == NamesOf(catalogs.std_fns)

\* the print calls after the two of the header
FnChunks == 3..Len(out)

\* a line declares, forwards to, or documents the method named nm
DeclaresName(line, nm) == Contains(line, <<"f","n"," ">> \o nm \o <<"(">>)
ForwardsName(line, nm) == Contains(line, <<"S","e","l","f",":",":">> \o nm \o <<"(">>)
DocumentsName(line, nm) == Contains(line, <<":",":">> \o nm \o <<"backtick","]">>)

ChunkDeclares(c, nm) == \E i \in 1..Len(out[c]) : DeclaresName(out[c][i], nm)
ChunkGated(c) ==
    \E i \in 1..Len(out[c]) : out[c][i] = indent \o <<"#","[","c","f","g","(","f","e","a","t","u","r","e"," ","="," ","\"","s","t","d","\"",")","]">>

IsDocLine(line) == StartsWith(line, indent \o <<"/","/","/">>)
IsMustUseLine(line) == StartsWith(line, indent \o <<"#","[","m","u","s","t","_","u","s","e"," ","="," ">>)

\* C6: for a method whose name is in the exclusion set of the trait, from the
\* core or from the std catalog, the output holds no declaration, no
\* documentation line and no forwarding body, in either mode.
C6_NameExclusion ==
    dpc = "printed" =>
        \A nm \in (CoreNames \cup StdNames) \cap Rendered.ignores :
            \A c \in 1..Len(out) : \A i \in 1..Len(out[c]) :
                /\ ~DeclaresName(out[c][i], nm)
                /\ ~ForwardsName(out[c][i], nm)
                /\ ~DocumentsName(out[c][i], nm)

\* an excluded method stood in the core catalog and one in the std catalog,
\* and another method was rendered
C6_Witness ==
    /\ dpc = "printed"
    /\ CoreNames \cap Rendered.ignores # {}
    /\ StdNames \cap Rendered.ignores # {}
    /\ Len(out) > 2

\* C9: a rendered declaration carries the feature gate iff it came from the
\* std catalog, that is iff its name is not in the core catalog; a method
\* that is not excluded is rendered exactly once, and a name in both catalogs
\* is rendered from the core catalog: ungated, with the forwarding call and
\* the must-use marker of the core method.
C9_GateAndDedup ==
    dpc = "printed" =>
        /\ \A c \in FnChunks :
            \E nm \in CoreNames \cup StdNames :
                /\ ChunkDeclares(c, nm)
                /\ ChunkGated(c) <=> nm \notin CoreNames
        /\ \A nm \in (CoreNames \cup StdNames) \ Rendered.ignores :
            Cardinality({c \in FnChunks : ChunkDeclares(c, nm)}) = 1
        /\ \A k \in 1..Len(catalogs.core_fns) :
            LET f == catalogs.core_fns[k] IN
            (f.name \in StdNames /\ f.name \notin Rendered.ignores) =>
                \E c \in FnChunks :
                    /\ ChunkDeclares(c, f.name)
                    /\ ~ChunkGated(c)
                    /\ impl => \E i \in 1..Len(out[c]) :
                                  out[c][i] = indent \o <<" "," "," "," ","S","e","l","f",":",":">> \o f.call
                    /\ ~impl => (f.must_use_reason # None
                                 <=> \E i \in 1..Len(out[c]) : IsMustUseLine(out[c][i]))

\* a name stood in both catalogs with different signatures, and a method of
\* the std catalog alone was rendered behind the gate
C9_Witness ==
    /\ dpc = "printed"
    /\ \E k \in 1..Len(catalogs.core_fns), j \in 1..Len(catalogs.std_fns) :
        /\ catalogs.core_fns[k].name = catalogs.std_fns[j].name
        /\ catalogs.core_fns[k].name \notin Rendered.ignores
        /\ catalogs.core_fns[k].call # catalogs.std_fns[j].call
    /\ \E c \in FnChunks : ChunkGated(c)
    /\ \E c \in FnChunks : ~ChunkGated(c)

\* the text holds the example implementor followed by its own tail: replacing
\* the name by Self leaves "Self" followed by that tail, and the last letter
\* of Self begins the name again (f3232 -> Self32)
SelfSeam(text, ex) == ex[1] = "f" /\ Contains(text, ex \o Tail(ex))

NoSeam ==
    \A cat \in {catalogs.core_fns, catalogs.std_fns} : \A k \in 1..Len(cat) :
        /\ ~SelfSeam(cat[k].definition, Rendered.example_implementor)
        /\ ~SelfSeam(cat[k].call, Rendered.example_implementor)

\* C7 as stated: in both modes no line of the output holds the name of the
\* example implementor.
C7_NoExampleName ==
    dpc = "printed" =>
        \A c \in 1..Len(out) : \A i \in 1..Len(out[c]) :
            ~Contains(out[c][i], Rendered.example_implementor)

\* C7 amended: outside the documentation lines and the must-use marker no
\* line of the output holds the name of the example implementor, provided no
\* extracted signature or call holds the name followed by its own tail; in
\* interface mode every declaration has a documentation line that names the
\* example implementor.
C7_NoExampleNameInCode ==
    dpc = "printed" =>
        /\ NoSeam =>
            \A c \in 1..Len(out) : \A i \in 1..Len(out[c]) :
                (~IsDocLine(out[c][i]) /\ ~IsMustUseLine(out[c][i]))
                    => ~Contains(out[c][i], Rendered.example_implementor)
        /\ ~impl =>
            \A c \in FnChunks :
                StartsWith(out[c][1], indent \o <<"/","/","/"," ","S","e","e"," ","[","backtick">>
                                      \o Rendered.example_implementor \o <<":",":">>)

\* interface mode, a signature that named the example implementor was
\* rendered, and so was a must-use reason that names it
C7_Witness ==
    /\ dpc = "printed" /\ ~impl /\ NoSeam
    /\ \E k \in 1..Len(catalogs.core_fns) :
        /\ catalogs.core_fns[k].name \notin Rendered.ignores
        /\ Contains(catalogs.core_fns[k].definition, Rendered.example_implementor)
        /\ \E c \in FnChunks : ChunkDeclares(c, catalogs.core_fns[k].name)
    /\ \E c \in FnChunks : \E i \in 1..Len(out[c]) :
        IsMustUseLine(out[c][i]) /\ Contains(out[c][i], Rendered.example_implementor)

-----------------------------------------------------------------------------
(* Lines 308-331: the splicer.                                              *)

\* \s, as far as a line holds it
IsSpace(c) == c \in {" ", "\t"}

\* the length of the longest run of characters from position i of l on that
\* are (space = TRUE) or are not (space = FALSE) white space
RECURSIVE RunLen(_, _, _)
RunLen(l, i, space) ==
    IF i > Len(l) \/ IsSpace(l[i]) # space THEN 0
    ELSE 1 + RunLen(l, i + 1, space)

\* START_RE.search(l): None, or the groups of the match.  The pattern is
\* anchored at the start of the line; \s* and \S+ take the longest run, and
\* no shorter run leaves a match
START_RE(l) ==
    LET ni == RunLen(l, 1, TRUE)
        lit == <<"/","/"," ","@","S","T","A","R","T","@"," ">>
        pt == ni + Len(lit) + 1
        nt == RunLen(l, pt, FALSE)
        pn == pt + nt + 1
        nn == RunLen(l, pn, FALSE)
    IN  IF /\ StartsWithAt(l, lit, ni + 1)
           /\ nt > 0
           /\ pt + nt <= Len(l) /\ l[pt + nt] = " "
           /\ nn > 0
        THEN Some([indent |-> SubSeq(l, 1, ni),
                   type |-> SubSeq(l, pt, pt + nt - 1),
                   name |-> SubSeq(l, pn, pn + nn - 1)])
        ELSE None

\* the key of TRAITS spelled name, if there is one
KeyOf(name) ==
    CASE name = <<"F","L","O","A","T">> -> Some("FLOAT")
      [] name = <<"I","N","T","E","G","E","R">> -> Some("INTEGER")
      [] name = <<"S","I","G","N","E","D">> -> Some("SIGNED")
      [] name = <<"U","N","S","I","G","N","E","D">> -> Some("UNSIGNED")
      [] OTHER -> None

\* lines 316-318 and 321: the line holds the start token and the assertion or
\* the lookup in TRAITS fails
Fails(l) ==
    /\ Contains(l, <<"@","S","T","A","R","T","@">>)
    /\ IF START_RE(l) = None THEN TRUE
       ELSE KeyOf(START_RE(l)[1].name) = None

\* lines 319-323: what print_decl writes for the start marker l
Block(l, cats) ==
    LET group == START_RE(l)[1]
        key == KeyOf(group.name)[1]
    IN  Flatten(print_decl(group.indent, TRAITS(key, cats[key]), group.type = <<"I","M","P","L">>))

\* lines 314-328: what one pass of the loop body appends to dst, for a line
\* that does not fail
Appended(l, copy, cats) ==
    (IF copy THEN <<l>> ELSE <<>>)
    \o (IF Contains(l, <<"@","S","T","A","R","T","@">>) THEN Block(l, cats) ELSE <<>>)
    \o (IF Contains(l, <<"@","E","N","D","@">>) THEN <<l>> ELSE <<>>)

\* lines 324 and 328: copy_lines after the pass
CopyAfter(l, copy) ==
    IF Contains(l, <<"@","E","N","D","@">>) THEN TRUE
    ELSE IF Contains(l, <<"@","S","T","A","R","T","@">>) THEN FALSE
    ELSE copy

\* a print to dst written into src/num.rs itself
OnDisk_InPlace(tgt, tmp) == tmp

\* line 310: dst is a temporary file of its own; a print to it leaves
\* src/num.rs as it is
OnDisk(tgt, tmp) == tgt

\* the lines of src/num.rs the model draws
LineStale     == <<"f","n"," ","s","t","a","l","e","(",")",";">>
LineStartImpl == <<" "," "," "," ","/","/"," ","@","S","T","A","R","T","@"," ","I","M","P","L"," ","F","L","O","A","T">>
LineStartDecl == <<"/","/"," ","@","S","T","A","R","T","@"," ","T","R","A","I","T"," ","I","N","T","E","G","E","R">>
LineStartNone == <<"/","/"," ","@","S","T","A","R","T","@"," ","I","M","P","L"," ","C","O","M","P","L","E","X">>
LineStartBad  == <<"/","/"," ","@","S","T","A","R","T","@">>
LineEnd       == <<" "," "," "," ","/","/"," ","@","E","N","D","@">>

Lines == {LineStale, LineStartImpl, LineStartDecl, LineStartNone, LineStartBad, LineEnd}

\* the catalogs of the registry of the run
RunCatalogs ==
    [nm \in TraitNames |->
        CASE nm = "FLOAT" -> [core_fns |-> <<F_to_bits>>, std_fns |-> <<S_sqrt>>]
          [] nm = "INTEGER" -> [core_fns |-> <<I_abs_diff>>, std_fns |-> <<>>]
          [] OTHER -> NoCatalogs]

InitSplice ==
    /\ original \in SeqsUpTo(Lines, MaxLines)
    /\ target = original
    /\ src = original
    /\ pos = 0 /\ copy_lines = TRUE /\ dst = <<>>
    /\ run = 1 /\ spc = "loop"
    /\ catalogs = RunCatalogs
    /\ trait_name = "" /\ indent = <<>> /\ impl = FALSE /\ out = <<>> /\ dpc = "idle"
    /\ ParseIdle /\ AlgIdle

\* lines 313-328: one pass of the loop
ReadLine ==
    /\ spc = "loop" /\ pos < Len(src)
    /\ LET l == src[pos + 1] IN
        /\ ~Fails(l)
        /\ dst' = dst \o Appended(l, copy_lines, catalogs)
        /\ copy_lines' = CopyAfter(l, copy_lines)
    /\ pos' = pos + 1
    /\ target' = OnDisk(target, dst')
    /\ UNCHANGED <<src, original, run, spc>>
    /\ UNCHANGED <<parseVars, algVars, trait_name, catalogs, indent, impl, out, dpc>>

\* lines 315-321: the pass that fails, after copying the line if it copies
Fail ==
    /\ spc = "loop" /\ pos < Len(src)
    /\ LET l == src[pos + 1] IN
        /\ Fails(l)
        /\ dst' = IF copy_lines THEN Append(dst, l) ELSE dst
    /\ pos' = pos + 1
    /\ target' = OnDisk(target, dst')
    /\ spc' = "aborted"
    /\ UNCHANGED <<src, original, run, copy_lines>>
    /\ UNCHANGED <<parseVars, algVars, trait_name, catalogs, indent, impl, out, dpc>>

\* lines 330-331
Move ==
    /\ spc = "loop" /\ pos = Len(src)
    /\ target' = dst
    /\ spc' = "moved"
    /\ UNCHANGED <<src, pos, copy_lines, dst, original, run>>
    /\ UNCHANGED <<parseVars, algVars, trait_name, catalogs, indent, impl, out, dpc>>

\* the program is run again, on the file the first run left
Rerun ==
    /\ spc = "moved" /\ run = 1
    /\ run' = 2
    /\ src' = target
    /\ pos' = 0 /\ copy_lines' = TRUE /\ dst' = <<>>
    /\ spc' = "loop"
    /\ UNCHANGED <<target, original>>
    /\ UNCHANGED <<parseVars, algVars, trait_name, catalogs, indent, impl, out, dpc>>

NextSplice == ReadLine \/ Fail \/ Move \/ Rerun

SpecSplice == InitSplice /\ [][NextSplice]_vars

----------------------------------------------------------------------------
\* Properties of the splicer

\* l matches START_RE
IsStartMarker(l) == START_RE(l) # None

\* l holds the end token (line 326)
IsEndMarker(l) == Contains(l, <<"@","E","N","D","@">>)

\* the number of lines of s that are l
RECURSIVE Count(_, _)
Count(s, l) ==
    IF s = <<>> THEN 0
    ELSE (IF Head(s) = l THEN 1 ELSE 0) + Count(Tail(s), l)

\* the position of the first end marker of s after position i; there is one
FirstEndAfter(s, i) ==
    CHOOSE j \in (i + 1)..Len(s) :
        /\ IsEndMarker(s[j])
        /\ \A k \in (i + 1)..(j - 1) : ~IsEndMarker(s[k])

\* no line of s after position i holds the end token
NoEndAfter(s, i) == \A j \in (i + 1)..Len(s) : ~IsEndMarker(s[j])

\* a run that has moved its output over the target
FirstRunDone == run = 1 /\ spc = "moved"
SecondRunDone == run = 2 /\ spc = "moved"

\* C1: running the splicer on the file the first run left yields that file
\* again: in the second run src is the result of the first run, and target is
\* the result of the second once it has moved its output.
C1_Idempotent == SecondRunDone => target = src

\* C2: once the first run has moved its output, every start marker line of the
\* input that an end marker line follows stands in the output, immediately
\* followed by the block rendered for it, immediately followed by the first end
\* marker line after it; a marker line the input holds once the output holds
\* once; and a line that the input holds only between the two markers the
\* output does not hold.
C2_RegionReplaced ==
    FirstRunDone =>
        \A i \in 1..Len(src) :
            (IsStartMarker(src[i]) /\ ~NoEndAfter(src, i)) =>
                LET b == Block(src[i], catalogs)
                    e == FirstEndAfter(src, i)
                IN  /\ \E p \in 1..Len(target) :
                            /\ target[p] = src[i]
                            /\ p + Len(b) + 1 <= Len(target)
                            /\ SubSeq(target, p + 1, p + Len(b)) = b
                            /\ target[p + Len(b) + 1] = src[e]
                    /\ Count(src, src[i]) = 1 => Count(target, src[i]) = 1
                    /\ Count(src, src[e]) = 1 => Count(target, src[e]) = 1
                    /\ \A k \in (i + 1)..(e - 1) :
                            Count(src, src[k]) = Count(SubSeq(src, i + 1, e - 1), src[k])
                                => Count(target, src[k]) = 0

\* C3: a pass of the loop in copy state appends the line it read once, and
\* after it only the block of a start marker; a pass in replace state appends
\* no input line but the end marker that closes the region, and no other text
\* than the block of a start marker.
C3_Frame ==
    [][ (spc = "loop" /\ pos < Len(src)) =>
            LET l == src[pos + 1]
                b == IF IsStartMarker(l) /\ spc' # "aborted"
                     THEN Block(l, catalogs) ELSE <<>>
            IN  IF copy_lines
                THEN dst' = dst \o <<l>> \o b
                ELSE \/ dst' = dst \o b
                     \/ IsEndMarker(l) /\ dst' = dst \o <<l>>
      ]_vars

\* C4: while a run is in its loop, and after it has aborted, the target holds
\* what it held when the run began (src is what the run read from it); a run
\* that has moved has read every line of its input, and the target is then the
\* whole of the temporary file.
C4_NoPartialCommit ==
    /\ spc \in {"loop", "aborted"} => target = src
    /\ run = 1 /\ spc \in {"loop", "aborted"} => target = original
    /\ spc = "moved" => (pos = Len(src) /\ target = dst)

\* C4: a first run that aborted after a block was written to the temporary
\* file
C4_Witness ==
    /\ run = 1 /\ spc = "aborted"
    /\ \E k \in 1..Len(dst) : Count(original, dst[k]) = 0
    /\ target = original

\* C10: a run that reaches the end of its input in replace state moves its
\* output over the target, and that output ends with a start marker line that
\* no end marker follows in the input and with the block rendered for it; no
\* line that the input holds only after that marker stands in the output.
C10_Truncated ==
    (FirstRunDone /\ ~copy_lines) =>
        /\ target = dst
        /\ \E i \in 1..Len(src) :
            /\ IsStartMarker(src[i]) /\ NoEndAfter(src, i)
            /\ LET tail == <<src[i]>> \o Block(src[i], catalogs)
               IN  /\ Len(target) >= Len(tail)
                   /\ SubSeq(target, Len(target) - Len(tail) + 1, Len(target)) = tail
            /\ \A k \in (i + 1)..Len(src) :
                    Count(SubSeq(src, 1, i), src[k]) = 0 => Count(target, src[k]) = 0

=============================================================================
